---- MODULE Spec2Model ----
(***************************************************************************)
(* protekt-docs: the homepage feature list (HomepageFeatures/index.tsx)    *)
(* and the build-time link policy of the site configuration                *)
(* (docusaurus.config.ts), its navigation and the front matter of the      *)
(* content documents, the example code of the RBAC guide (roles, the       *)
(* requirePermission middleware, Navigation and App) and the page of the   *)
(* quickstart guide in its two versions.                                   *)
(*                                                                         *)
(* A rendered tree is a record: tag, className, children (a sequence of    *)
(* trees), and for text-bearing nodes the displayed text.                  *)
(***************************************************************************)
EXTENDS Integers, Sequences, FiniteSets, TLC

(* ----------------------------- bounds ---------------------------------- *)

\* longest descriptor sequence that is enumerated
MaxLen == 2

\* render passes that are counted before the model stops rendering
MaxPasses == 4

\* broken links of either kind a build is given
MaxBroken == 2

\* the longest list of roles the Management API answers with
MaxRoles == 2

\* the longest Authorization header value, in characters
MaxHeader == 3

\* failed logins of one visit that are counted
MaxAlerts == 2

(* --------------------------- data model -------------------------------- *)

Titles == {"A", "B"}

Icons == {"mountain.svg", "tree.svg"}

Descriptions == {"a", "b"}

\* type FeatureItem = {title, Svg, description}
FeatureItem == [title : Titles, Svg : Icons, description : Descriptions]

\* what a caller may hand to the component as its props
PropsItem == [title : {"B"}, Svg : {"tree.svg"}, description : {"a"}]

SeqsUpTo(S, n) == UNION {[1..k -> S] : k \in 0..n}

FeatureSeqs == SeqsUpTo(FeatureItem, MaxLen)

PropsSeqs == SeqsUpTo(PropsItem, MaxLen)

\* the literal with its last descriptor left without a description
FeatureListLiteralBlank ==
  << [title |-> "Easy Integration",
      Svg |-> "undraw_docusaurus_mountain.svg",
      description |-> "Protekt was designed from the ground up to be easily integrated into any application. Get secure authentication up and running in under 30 minutes."],
     [title |-> "Focus on Your Product",
      Svg |-> "undraw_docusaurus_tree.svg",
      description |-> "Protekt handles all the complex authentication logic, so you can focus on building amazing features. We'll take care of security and compliance."],
     [title |-> "Developer-First APIs",
      Svg |-> "undraw_docusaurus_react.svg",
      description |-> ""] >>

\* the literal of the const FeatureList
FeatureListLiteral ==
  << [title |-> "Easy Integration",
      Svg |-> "undraw_docusaurus_mountain.svg",
      description |-> "Protekt was designed from the ground up to be easily integrated into any application. Get secure authentication up and running in under 30 minutes."],
     [title |-> "Focus on Your Product",
      Svg |-> "undraw_docusaurus_tree.svg",
      description |-> "Protekt handles all the complex authentication logic, so you can focus on building amazing features. We'll take care of security and compliance."],
     [title |-> "Developer-First APIs",
      Svg |-> "undraw_docusaurus_react.svg",
      description |-> "Built with developers in mind. Clean REST APIs, comprehensive SDKs, and detailed documentation to get you started quickly."] >>

(* ------------------------------ state ---------------------------------- *)

VARIABLES
  FeatureList,   \* the module-level array of descriptors
  props,         \* what the last call of the component was handed
  output,        \* the tree the last render pass returned
  prevOutput,    \* the tree the pass before it returned
  threw,         \* whether the last render pass ended in an exception
  passes,        \* completed render passes
  build,         \* the last site build: its inputs and its outcome
  site,          \* what the last build loaded: navigation and front matter
  api,           \* RBAC guide: the last API request and what became of it
  app,           \* RBAC guide: what the last render of App returned
  visit,         \* quickstart: how the page was opened, what the SDK answers
  page,          \* quickstart: the page built from steps 3.2 to 3.9
  full,          \* quickstart: the page of the complete file of step 3.10
  helper,        \* user management: each caller's helper call, as far as it got
  view,          \* Python SDK: the last request to a token_required view
  config,        \* the last two evaluations of the configuration module
  pass           \* one render pass taken callback by callback

vars ==
  <<FeatureList, props, output, prevOutput, threw, passes, build, site,
    api, app, visit, page, full, helper, view, config, pass>>

rbacVars == <<api, app>>

quickVars == <<visit, page, full>>

exampleVars == <<helper, view, config, pass>>

guideVars == <<api, app, visit, page, full, helper, view, config, pass>>

renderVars == <<FeatureList, props, output, prevOutput, threw, passes>>

siteVars == <<build, site>>

NoTree == [tag |-> "none"]

NoProps == [tag |-> "none"]

(* ------------------------- the component ------------------------------- *)

\* clsx with one string argument: the class names joined, here the one string
clsx(c) == c

\* Feature with the heading fed from the description
FeatureHeadingSwapped(item) ==
  [tag |-> "div", className |-> clsx("col col--4"),
   children |-> <<
     [tag |-> "div", className |-> "text--center",
      children |-> <<
        [tag |-> "svg", src |-> item.Svg, className |-> "featureSvg",
         role |-> "img"] >>],
     [tag |-> "div", className |-> "text--center padding-horiz--md",
      children |-> <<
        [tag |-> "h3", text |-> item.description],
        [tag |-> "p", text |-> item.description] >>] >>]

\* Feature without the paragraph
FeatureNoParagraph(item) ==
  [tag |-> "div", className |-> clsx("col col--4"),
   children |-> <<
     [tag |-> "div", className |-> "text--center",
      children |-> <<
        [tag |-> "svg", src |-> item.Svg, className |-> "featureSvg",
         role |-> "img"] >>],
     [tag |-> "div", className |-> "text--center padding-horiz--md",
      children |-> << [tag |-> "h3", text |-> item.title] >>] >>]

\* function Feature({title, Svg, description})
Feature(item) ==
  [tag |-> "div", className |-> clsx("col col--4"),
   children |-> <<
     [tag |-> "div", className |-> "text--center",
      children |-> <<
        [tag |-> "svg", src |-> item.Svg, className |-> "featureSvg",
         role |-> "img"] >>],
     [tag |-> "div", className |-> "text--center padding-horiz--md",
      children |-> <<
        [tag |-> "h3", text |-> item.title],
        [tag |-> "p", text |-> item.description] >>] >>]

\* the callback passing the title where the description belongs
FeatureElementTitleTwice(item, idx) ==
  [key |-> ToString(idx),
   block |-> Feature([title |-> item.title, Svg |-> item.Svg,
                      description |-> item.title])]

\* the callback keyed by a counter kept across render passes
FeatureElementCounting(item, idx) ==
  [key |-> ToString(idx + passes * Len(FeatureList)),
   block |-> Feature([title |-> item.title, Svg |-> item.Svg,
                      description |-> item.description])]

\* the callback giving the first block half of the row
FeatureElementFirstWide(item, idx) ==
  [key |-> ToString(idx),
   block |-> [Feature([title |-> item.title, Svg |-> item.Svg,
                       description |-> item.description])
                EXCEPT !.className =
                  IF idx = 0 THEN "col col--6" ELSE "col col--4"]]

\* the callback keyed by the title of the descriptor
FeatureElementKeyedByTitle(item, idx) ==
  [key |-> item.title,
   block |-> Feature([title |-> item.title, Svg |-> item.Svg,
                      description |-> item.description])]

\* (props, idx) => <Feature key={idx} {...props} />, rendered: the key is
\* the index as React keeps it (a string), the spread copies the three
\* fields into the element's props, and Feature is called with them
FeatureElement(item, idx) ==
  [key |-> ToString(idx),
   block |-> Feature([title |-> item.title, Svg |-> item.Svg,
                      description |-> item.description])]

\* the list walked from its end
FeatureBlocksReversed(list) ==
  [k \in 1..Len(list) |-> FeatureElement(list[Len(list) + 1 - k], k - 1)]

\* FeatureList.map((props, idx) => ...): Array.prototype.map returns a new
\* array of the same length whose k-th element is the callback applied to
\* the k-th element and the zero-based index k
FeatureBlocks(list) ==
  [k \in 1..Len(list) |-> FeatureElement(list[k], k - 1)]

\* a component that renders the list it is handed
HomepageFeaturesOfProps(calledWith) ==
  [tag |-> "section", className |-> "features",
   children |-> <<
     [tag |-> "div", className |-> "container",
      children |-> <<
        [tag |-> "div", className |-> "row",
         children |-> FeatureBlocks(calledWith)] >>] >>]

\* export default function HomepageFeatures(): the function declares no
\* parameter, so the props object React calls it with is not read
HomepageFeatures(calledWith) ==
  [tag |-> "section", className |-> "features",
   children |-> <<
     [tag |-> "div", className |-> "container",
      children |-> <<
        [tag |-> "div", className |-> "row",
         children |-> FeatureBlocks(FeatureList)] >>] >>]

\* a pass that reads the first descriptor before mapping: a TypeError on
\* an empty list
RenderReadingFirst(p) ==
  /\ passes < MaxPasses
  /\ props' = p
  /\ prevOutput' = output
  /\ output' = IF Len(FeatureList) = 0 THEN NoTree ELSE HomepageFeatures(p)
  /\ threw' = (Len(FeatureList) = 0)
  /\ passes' = passes + 1
  /\ FeatureList' = FeatureList
  /\ UNCHANGED siteVars
  /\ UNCHANGED guideVars

\* a pass that reverses the list in place before mapping it
RenderReversingInPlace(p) ==
  /\ passes < MaxPasses
  /\ props' = p
  /\ prevOutput' = output
  /\ output' = HomepageFeatures(p)
  /\ threw' = FALSE
  /\ passes' = passes + 1
  /\ FeatureList' = [k \in 1..Len(FeatureList) |->
                       FeatureList[Len(FeatureList) + 1 - k]]
  /\ UNCHANGED siteVars
  /\ UNCHANGED guideVars

\* one render pass of the component, called with the props p
Render(p) ==
  /\ passes < MaxPasses
  /\ props' = p
  /\ prevOutput' = output
  /\ output' = HomepageFeatures(p)
  /\ threw' = FALSE
  /\ passes' = passes + 1
  /\ FeatureList' = FeatureList
  /\ UNCHANGED siteVars
  /\ UNCHANGED guideVars

(* --------------------------- the site build ---------------------------- *)

\* a configuration that only warns about broken internal links
onBrokenLinksWarn == "warn"

\* config.onBrokenLinks
onBrokenLinks == "throw"

\* config.onBrokenMarkdownLinks
onBrokenMarkdownLinks == "warn"

IdleBuild ==
  [status |-> "idle", brokenMarkdownLinks |-> 0, brokenLinks |-> 0,
   warnings |-> 0, infos |-> 0]

\* the framework's reporting of a problem under a configured severity
ReportMessage(severity, b) ==
  IF b.status = "aborted" THEN b
  ELSE CASE severity = "ignore" -> b
         [] severity = "log" -> [b EXCEPT !.infos = @ + 1]
         [] severity = "warn" -> [b EXCEPT !.warnings = @ + 1]
         [] severity = "throw" -> [b EXCEPT !.status = "aborted"]

\* one report per broken link found
RECURSIVE ReportEach(_, _, _)
ReportEach(severity, n, b) ==
  IF n = 0 THEN b ELSE ReportEach(severity, n - 1, ReportMessage(severity, b))

\* the framework's build: the Markdown links are resolved while the
\* documents are compiled, the internal links are checked after the pages
\* are rendered, and a build that was not aborted completes
RunBuild(nMarkdown, nLinks) ==
  LET b0 == [IdleBuild EXCEPT !.status = "running",
                              !.brokenMarkdownLinks = nMarkdown,
                              !.brokenLinks = nLinks]
      b1 == ReportEach(onBrokenMarkdownLinks, nMarkdown, b0)
      b2 == IF nLinks > 0 THEN ReportMessage(onBrokenLinks, b1) ELSE b1
  IN  IF b2.status = "aborted" THEN b2
      ELSE [b2 EXCEPT !.status = "completed"]

(* ------------------ navigation and content surfaces ------------------- *)

\* the navbar with the target of its GitHub entry left out
navbarItemsNoTarget ==
  << [type |-> "docSidebar", sidebarId |-> "tutorialSidebar",
      position |-> "left", label |-> "Documentation"],
     [type |-> "dropdown", label |-> "API", position |-> "left",
      items |-> << [label |-> "API Reference",
                    to |-> "/docs/api/authentication"],
                   [label |-> "SDKs", to |-> "/docs/sdks/javascript"] >>],
     [type |-> "search", position |-> "right"],
     [label |-> "GitHub", position |-> "right"],
     [href |-> "https://dashboard.protekt.dev", label |-> "Dashboard",
      position |-> "right"] >>

\* themeConfig.navbar.items
navbarItems ==
  << [type |-> "docSidebar", sidebarId |-> "tutorialSidebar",
      position |-> "left", label |-> "Documentation"],
     [type |-> "dropdown", label |-> "API", position |-> "left",
      items |-> << [label |-> "API Reference",
                    to |-> "/docs/api/authentication"],
                   [label |-> "SDKs", to |-> "/docs/sdks/javascript"] >>],
     [type |-> "search", position |-> "right"],
     [href |-> "https://github.com/protekt/protekt-docs", label |-> "GitHub",
      position |-> "right"],
     [href |-> "https://dashboard.protekt.dev", label |-> "Dashboard",
      position |-> "right"] >>

\* themeConfig.footer.links
footerLinks ==
  << [title |-> "Docs",
      items |-> << [label |-> "Tutorial", to |-> "/docs/intro"] >>],
     [title |-> "Community",
      items |-> << [label |-> "Stack Overflow",
                    href |-> "https://stackoverflow.com/questions/tagged/docusaurus"],
                   [label |-> "Discord",
                    href |-> "https://discordapp.com/invite/docusaurus"],
                   [label |-> "X", href |-> "https://x.com/docusaurus"] >>],
     [title |-> "More",
      items |-> << [label |-> "Blog", to |-> "/blog"],
                   [label |-> "GitHub",
                    href |-> "https://github.com/facebook/docusaurus"] >>] >>

\* the front matter of each content document: how many front-matter blocks
\* open the file, and the keys of the block
FullKeys ==
  {"title", "description", "author", "reviewer", "date", "keywords", "tags",
   "customer_intent"}

overviewFrontMatter == [doc |-> "overview", blocks |-> 1, keys |-> FullKeys]

\* intro.md opens with the same block twice: the second one, which a
\* front-matter parser leaves in the body, is counted in blocks
introFrontMatter ==
  [doc |-> "intro", blocks |-> 2, keys |-> {"sidebar_position"}]

sdksIndexFrontMatter ==
  [doc |-> "sdks/index", blocks |-> 1,
   keys |-> {"sidebar_position", "title", "description"}]

javascriptFrontMatter ==
  [doc |-> "sdks/javascript", blocks |-> 1,
   keys |-> {"sidebar_position", "title", "description", "customer_intent"}]

nodeFrontMatter ==
  [doc |-> "sdks/node", blocks |-> 1,
   keys |-> {"sidebar_position", "title", "description", "customer_intent"}]

pythonFrontMatter ==
  [doc |-> "sdks/python", blocks |-> 1,
   keys |-> {"sidebar_position", "title", "description", "customer_intent"}]

rolesPermissionsFrontMatter ==
  [doc |-> "api/roles-permissions", blocks |-> 1, keys |-> FullKeys]

quickstartFrontMatter ==
  [doc |-> "getting-started/quickstart", blocks |-> 1, keys |-> FullKeys]

userManagementFrontMatter ==
  [doc |-> "api/user-management", blocks |-> 1, keys |-> FullKeys]

authenticationFrontMatter ==
  [doc |-> "api/authentication", blocks |-> 1, keys |-> FullKeys]

rbacGuideFrontMatter == [doc |-> "guides/rbac", blocks |-> 1, keys |-> FullKeys]

\* the content tree the build reads
ContentDocs ==
  << overviewFrontMatter, introFrontMatter, sdksIndexFrontMatter,
     javascriptFrontMatter, nodeFrontMatter, pythonFrontMatter,
     rolesPermissionsFrontMatter, quickstartFrontMatter,
     userManagementFrontMatter, authenticationFrontMatter,
     rbacGuideFrontMatter >>

NoSite == [loaded |-> FALSE, navbar |-> << >>, footer |-> << >>,
           docs |-> << >>]

\* the framework reads the configuration and the content tree before it
\* renders anything
LoadSite ==
  [loaded |-> TRUE, navbar |-> navbarItems, footer |-> footerLinks,
   docs |-> ContentDocs]

Build(nMarkdown, nLinks) ==
  /\ build' = RunBuild(nMarkdown, nLinks)
  /\ site' = LoadSite
  /\ UNCHANGED renderVars
  /\ UNCHANGED guideVars

(* ------------------- the RBAC guide: roles and checks ------------------ *)

\* the role table with write:posts granted to the viewer as well
RolePermissionsViewerWrites ==
  [admin |-> {"read:all", "write:all", "delete:all"},
   editor |-> {"read:posts", "write:posts"},
   viewer |-> {"read:posts", "write:posts"}]

\* Step 1.2: the permissions assigned to each role
RolePermissions ==
  [admin |-> {"read:all", "write:all", "delete:all"},
   editor |-> {"read:posts", "write:posts"},
   viewer |-> {"read:posts"}]

\* every permission name the guide uses
PermissionNames ==
  RolePermissions.admin \cup RolePermissions.editor \cup RolePermissions.viewer

\* a user object: the custom claim 'https://your-app.com/permissions' is
\* either absent or an array of permission names
Users ==
  {[claimed |-> TRUE, permissions |-> ps] : ps \in SUBSET PermissionNames}
    \cup {[claimed |-> FALSE, permissions |-> {}]}

\* useAuth() before login: there is no user object
NoUser == [claimed |-> FALSE, permissions |-> {}, absent |-> TRUE]

\* getUserPermissions(user): user[claim] || []
getUserPermissions(user) ==
  IF user.claimed THEN user.permissions ELSE {}

\* hasPermission(user, permission)
hasPermission(user, permission) == permission \in getUserPermissions(user)

\* the middleware without the return after the 403
requirePermissionNoReturn(permission, req) ==
  LET permissions == IF req.user.claimed THEN req.user.permissions ELSE {}
  IN  IF permission \notin permissions
      THEN [sent |-> TRUE, status |-> 403,
            error |-> "Insufficient permissions", nextCalls |-> 1]
      ELSE [sent |-> FALSE, status |-> 0, error |-> "", nextCalls |-> 1]

\* requirePermission(permission)(req, res, next): what it sent on res and
\* how many times it called next
requirePermission(permission, req) ==
  LET permissions == IF req.user.claimed THEN req.user.permissions ELSE {}
  IN  IF permission \notin permissions
      THEN [sent |-> TRUE, status |-> 403,
            error |-> "Insufficient permissions", nextCalls |-> 0]
      ELSE [sent |-> FALSE, status |-> 0, error |-> "", nextCalls |-> 1]

\* app.get / app.post / app.delete with their requirePermission argument
ProtectedRoutes ==
  << [method |-> "GET", path |-> "/api/posts", permission |-> "read:posts"],
     [method |-> "POST", path |-> "/api/posts", permission |-> "write:posts"],
     [method |-> "DELETE", path |-> "/api/posts/:id",
      permission |-> "delete:all"] >>

NoRequest ==
  [handled |-> FALSE, method |-> "", path |-> "", permission |-> "",
   user |-> [claimed |-> FALSE, permissions |-> {}],
   res |-> [sent |-> FALSE, status |-> 0, error |-> "", nextCalls |-> 0],
   handlerRuns |-> 0]

\* an authenticated request to the r-th protected route: the middleware
\* runs, and the route handler runs once for each call of next
HandleRequest(r, user) ==
  LET route == ProtectedRoutes[r]
      res == requirePermission(route.permission, [user |-> user])
  IN  /\ api' = [handled |-> TRUE, method |-> route.method,
                 path |-> route.path, permission |-> route.permission,
                 user |-> user, res |-> res, handlerRuns |-> res.nextCalls]
      /\ UNCHANGED <<renderVars, siteVars, exampleVars, app, quickVars>>

\* {condition && element}: the element when the condition holds, nothing
\* otherwise
When(condition, element) == IF condition THEN <<element>> ELSE << >>

\* Navigation with the Posts link gated by read:all
NavigationReadAll(user) ==
  LET permissions == getUserPermissions(user)
  IN  <<"/dashboard">>
        \o When("read:all" \in permissions, "/posts")
        \o When("write:posts" \in permissions, "/create-post")
        \o When("delete:all" \in permissions, "/admin")

\* function Navigation({ user }): the targets of the links it returns
Navigation(user) ==
  LET permissions == getUserPermissions(user)
  IN  <<"/dashboard">>
        \o When("read:posts" \in permissions, "/posts")
        \o When("write:posts" \in permissions, "/create-post")
        \o When("delete:all" \in permissions, "/admin")

NoApp ==
  [rendered |-> FALSE, isAuthenticated |-> FALSE, user |-> NoUser,
   login |-> FALSE, links |-> << >>, routes |-> << >>, lookups |-> 0]

\* App reading the permissions claim before it tests isAuthenticated
AppLookupFirst(isAuthenticated, user) ==
  LET permissions == IF user.claimed THEN user.permissions ELSE {}
  IN  IF ~isAuthenticated
      THEN [rendered |-> TRUE, isAuthenticated |-> FALSE, user |-> user,
            login |-> TRUE, links |-> << >>, routes |-> << >>, lookups |-> 1]
      ELSE [rendered |-> TRUE, isAuthenticated |-> TRUE, user |-> user,
            login |-> FALSE,
            links |-> Navigation(user),
            routes |-> <<"/dashboard">>
                         \o When("read:posts" \in permissions, "/posts")
                         \o When("write:posts" \in permissions,
                                 "/create-post")
                         \o When("delete:all" \in permissions, "/admin"),
            lookups |-> 2]

\* function App(): the Login component alone, or the navigation and the
\* paths of the routes; lookups counts the reads of the permissions claim
App(isAuthenticated, user) ==
  IF ~isAuthenticated
  THEN [rendered |-> TRUE, isAuthenticated |-> FALSE, user |-> user,
        login |-> TRUE, links |-> << >>, routes |-> << >>, lookups |-> 0]
  ELSE LET permissions == IF user.claimed THEN user.permissions ELSE {}
       IN  [rendered |-> TRUE, isAuthenticated |-> TRUE, user |-> user,
            login |-> FALSE,
            links |-> Navigation(user),
            routes |-> <<"/dashboard">>
                         \o When("read:posts" \in permissions, "/posts")
                         \o When("write:posts" \in permissions,
                                 "/create-post")
                         \o When("delete:all" \in permissions, "/admin"),
            lookups |-> 2]

\* one render of App with what useAuth() returned
RenderApp(isAuthenticated, user) ==
  /\ app' = App(isAuthenticated, user)
  /\ UNCHANGED <<renderVars, siteVars, exampleVars, api, quickVars>>

(* ------------------------ the quickstart page -------------------------- *)

\* what protekt.getUser() may settle with: a rejection, a user without a
\* name, a user with one
GetUserOutcomes ==
  { [ok |-> FALSE, name |-> "", email |-> "", sub |-> "", updated_at |-> ""],
    [ok |-> TRUE, name |-> "", email |-> "ada@example.com",
     sub |-> "user_123", updated_at |-> "2025-09-24"],
    [ok |-> TRUE, name |-> "Ada", email |-> "ada@example.com",
     sub |-> "user_123", updated_at |-> "2025-09-24"] }

\* how a visit starts: whether the URL carries code=, whether a session
\* exists already, and what the SDK calls of this visit settle with
Visits ==
  [open : {TRUE}, hasCode : BOOLEAN, session : BOOLEAN,
   authThrows : BOOLEAN, callbackOk : BOOLEAN, user : GetUserOutcomes]

NoVisit ==
  [open |-> FALSE, hasCode |-> FALSE, session |-> FALSE,
   authThrows |-> FALSE, callbackOk |-> FALSE,
   user |-> [ok |-> FALSE, name |-> "", email |-> "", sub |-> "",
             updated_at |-> ""]]

\* the markup of step 3.2 (and of 3.10): the login section without a class,
\* the profile section with class "hidden", an empty user-info; and the
\* script's pending work: the load handler, the redirect callback, the
\* getUser calls in flight, the alerts raised
InitialMarkup ==
  [loginHidden |-> FALSE, profileHidden |-> TRUE, userInfo |-> [kind |-> "empty"],
   load |-> "idle", authResult |-> "none", callback |-> "none",
   tokens |-> FALSE, getUser |-> 0, alerts |-> 0]

\* the script as the document is parsed: the callback handling starts if the
\* URL carries code=
Parsed(hasCode) ==
  [InitialMarkup EXCEPT !.callback = IF hasCode THEN "pending" ELSE "none"]

\* the template literal of loadUserProfile / showProfile
UserInfoHtml(user) ==
  [kind |-> "user", heading |-> "User Information",
   name |-> IF user.name = "" THEN "Not provided" ELSE user.name,
   email |-> user.email, sub |-> user.sub,
   lastLogin |-> <<"toLocaleString", user.updated_at>>]

\* '<p>Error loading user information</p>'
UserInfoError == [kind |-> "error", text |-> "Error loading user information"]

\* function showLogin()
showLogin(d) == [d EXCEPT !.loginHidden = FALSE, !.profileHidden = TRUE]

\* showProfile that leaves the login section as it is
showProfileOnly(d) == [d EXCEPT !.profileHidden = FALSE]

\* function showProfile() of step 3.5
showProfile(d) == [d EXCEPT !.loginHidden = TRUE, !.profileHidden = FALSE]

\* what isAuthenticated() settles with when the SDK evaluates it
AuthResult(d) ==
  IF visit.authThrows THEN "throw"
  ELSE IF visit.session \/ d.tokens THEN "true" ELSE "false"

\* a load handler that only logs when the check throws
OnLoadResultSilent(d) ==
  CASE d.authResult = "true" -> showProfile(d)
    [] d.authResult = "false" -> showLogin(d)
    [] OTHER -> d

\* step 3.5, after the await: showProfile, showLogin, or showLogin in the
\* catch
OnLoadResult(d) ==
  CASE d.authResult = "true" -> showProfile(d)
    [] d.authResult = "false" -> showLogin(d)
    [] OTHER -> showLogin(d)

\* step 3.8: then: showProfile(); loadUserProfile() starts its getUser call;
\* catch: alert and showLogin()
OnCallback(d) ==
  IF visit.callbackOk
  THEN [showProfile(d) EXCEPT !.callback = "resolved", !.tokens = TRUE,
                              !.getUser = @ + 1]
  ELSE [showLogin(d) EXCEPT !.callback = "rejected", !.alerts = @ + 1]

\* step 3.9, loadUserProfile after the await: the user's data, or the error
\* text in the catch
OnGetUser(d) ==
  [d EXCEPT !.getUser = @ - 1,
            !.userInfo = IF visit.user.ok THEN UserInfoHtml(visit.user)
                         ELSE UserInfoError]

\* step 3.10, load handler after the await: showProfile() starts its getUser
\* call when authenticated; nothing otherwise
FullOnLoadResult(d) ==
  IF d.authResult = "true" THEN [d EXCEPT !.getUser = @ + 1] ELSE d

\* step 3.10, callback handling: then: showProfile() starts its getUser
\* call; catch: alert
FullOnCallback(d) ==
  IF visit.callbackOk
  THEN [d EXCEPT !.callback = "resolved", !.tokens = TRUE, !.getUser = @ + 1]
  ELSE [d EXCEPT !.callback = "rejected", !.alerts = @ + 1]

\* step 3.10, showProfile after the await: the sections switch and the
\* user's data is written; the catch only logs
FullOnGetUser(d) ==
  IF visit.user.ok
  THEN [d EXCEPT !.getUser = @ - 1, !.loginHidden = TRUE,
                 !.profileHidden = FALSE,
                 !.userInfo = UserInfoHtml(visit.user)]
  ELSE [d EXCEPT !.getUser = @ - 1]

\* the browser opens the page: both versions are parsed
OpenPage(v) ==
  /\ ~visit.open
  /\ visit' = v
  /\ page' = Parsed(v.hasCode)
  /\ full' = Parsed(v.hasCode)
  /\ UNCHANGED <<renderVars, siteVars, exampleVars, rbacVars>>

\* login() / logout(): the redirect unloads the document
Navigate ==
  /\ visit.open
  /\ visit' = NoVisit
  /\ page' = InitialMarkup
  /\ full' = InitialMarkup
  /\ UNCHANGED <<renderVars, siteVars, exampleVars, rbacVars>>

\* login(), protekt.loginWithRedirect() rejects: the catch raises an alert
\* and the page stays loaded
StepsLoginFails ==
  /\ visit.open
  /\ page.alerts < MaxAlerts
  /\ page' = [page EXCEPT !.alerts = @ + 1]
  /\ UNCHANGED <<renderVars, siteVars, exampleVars, rbacVars, visit, full>>

\* the load event: the handler calls protekt.isAuthenticated() and awaits
StepsLoadFires ==
  /\ visit.open /\ page.load = "idle"
  /\ page' = [page EXCEPT !.load = "called"]
  /\ UNCHANGED <<renderVars, siteVars, exampleVars, rbacVars, visit, full>>

\* the SDK evaluates the authentication state
StepsAuthChecked ==
  /\ page.load = "called"
  /\ page' = [page EXCEPT !.load = "checked", !.authResult = AuthResult(page)]
  /\ UNCHANGED <<renderVars, siteVars, exampleVars, rbacVars, visit, full>>

\* the load handler resumes after the await
StepsLoadResumes ==
  /\ page.load = "checked"
  /\ page' = [OnLoadResult(page) EXCEPT !.load = "done"]
  /\ UNCHANGED <<renderVars, siteVars, exampleVars, rbacVars, visit, full>>

\* protekt.handleRedirectCallback() settles
StepsCallbackSettles ==
  /\ page.callback = "pending"
  /\ page' = OnCallback(page)
  /\ UNCHANGED <<renderVars, siteVars, exampleVars, rbacVars, visit, full>>

\* protekt.getUser() settles
StepsGetUserSettles ==
  /\ page.getUser > 0
  /\ page' = OnGetUser(page)
  /\ UNCHANGED <<renderVars, siteVars, exampleVars, rbacVars, visit, full>>

\* the same login() in the complete file of step 3.10
FullLoginFails ==
  /\ visit.open
  /\ full.alerts < MaxAlerts
  /\ full' = [full EXCEPT !.alerts = @ + 1]
  /\ UNCHANGED <<renderVars, siteVars, exampleVars, rbacVars, visit, page>>

FullLoadFires ==
  /\ visit.open /\ full.load = "idle"
  /\ full' = [full EXCEPT !.load = "called"]
  /\ UNCHANGED <<renderVars, siteVars, exampleVars, rbacVars, visit, page>>

FullAuthChecked ==
  /\ full.load = "called"
  /\ full' = [full EXCEPT !.load = "checked", !.authResult = AuthResult(full)]
  /\ UNCHANGED <<renderVars, siteVars, exampleVars, rbacVars, visit, page>>

FullLoadResumes ==
  /\ full.load = "checked"
  /\ full' = [FullOnLoadResult(full) EXCEPT !.load = "done"]
  /\ UNCHANGED <<renderVars, siteVars, exampleVars, rbacVars, visit, page>>

FullCallbackSettles ==
  /\ full.callback = "pending"
  /\ full' = FullOnCallback(full)
  /\ UNCHANGED <<renderVars, siteVars, exampleVars, rbacVars, visit, page>>

FullGetUserSettles ==
  /\ full.getUser > 0
  /\ full' = FullOnGetUser(full)
  /\ UNCHANGED <<renderVars, siteVars, exampleVars, rbacVars, visit, page>>

(* ------------------- user management: the helper code ------------------- *)

\* the error statuses the Management API answers with; Success is any answer
\* that makes the awaited SDK call resolve
ErrorStatuses == {400, 401, 403, 404, 409}

Success == 200

ApiOutcomes == {Success} \cup ErrorStatuses

\* the status of a call that is awaited and not answered yet
Unanswered == 0

\* the code that calls the helpers: two callers, each awaiting its own call,
\* so that two helper calls can be in flight at once
Callers == {"first", "second"}

Emails == {"ada@example.com", "bob@example.com"}

UserDatas ==
  {[email |-> e, password |-> "SecurePass123!", name |-> "John Doe"] :
     e \in Emails}

UserIds == {"auth0|ada", "auth0|bob"}

RoleIds == {"rol_editor"}

\* the user object the API answers with for an address
UserOf(email) ==
  [user_id |-> IF email = "ada@example.com" THEN "auth0|ada" ELSE "auth0|bob",
   email |-> email]

null == [user_id |-> "null", email |-> "null"]

undefined == [user_id |-> "undefined", email |-> "undefined"]

\* what an API call that answers no list ends with
StatusAnswers == {[status |-> s, data |-> << >>] : s \in ApiOutcomes}

\* what management.users.getAll answers: a failure, or at most one user
GetAllAnswers ==
  {[status |-> s, data |-> << >>] : s \in ErrorStatuses}
    \cup {[status |-> Success, data |-> us] :
            us \in {<< >>} \cup {<<UserOf(e)>> : e \in Emails}}

RoleNames == {"Admin", "admin"}

Roles == {[id |-> "rol_" \o n, name |-> n] : n \in RoleNames}

\* what management.users.getRoles answers: a failure, or a list of roles
GetRolesAnswers ==
  {[status |-> s, data |-> << >>] : s \in ErrorStatuses}
    \cup {[status |-> Success, data |-> rs] : rs \in SeqsUpTo(Roles, MaxRoles)}

AnswersTo(name) ==
  IF name = "users.getAll" THEN GetAllAnswers
  ELSE IF name = "users.getRoles" THEN GetRolesAnswers
  ELSE StatusAnswers

\* one call of the Management API (or of refreshManagementToken) as the
\* helper made it: the method, its arguments, and once it is answered the
\* status it ended with and the list it answered with if it answers one
Call(name, args) ==
  [name |-> name, args |-> args, status |-> Unanswered, data |-> << >>]

Answered(call, answer) ==
  [call EXCEPT !.status = answer.status, !.data = answer.data]

\* the promise of an async function a helper awaits: not settled yet, or
\* settled with the value the function returned
NoInner == [settled |-> FALSE, value |-> undefined]

NoCall ==
  [fn |-> "none", email |-> "", userId |-> "", role |-> "",
   calls |-> << >>, inner |-> NoInner, outcome |-> "none",
   value |-> undefined, error |-> 0]

\* a helper is called: it runs to its first await
Begin(fn, email, userId, role, call) ==
  [fn |-> fn, email |-> email, userId |-> userId, role |-> role,
   calls |-> <<call>>, inner |-> NoInner, outcome |-> "pending",
   value |-> undefined, error |-> 0]

Last(c) == c.calls[Len(c.calls)]

\* the helper goes on to its next await
Awaiting(c, call) == [c EXCEPT !.calls = Append(@, call)]

Returns(c, value) == [c EXCEPT !.outcome = "returned", !.value = value]

Throws(c, error) == [c EXCEPT !.outcome = "threw", !.error = error]

\* Array.prototype.some with the callback role => role.name === roleName
SomeRoleNamed(roles, roleName) ==
  \E k \in 1..Len(roles) : roles[k].name = roleName

\* Each helper below is the code that runs when the call it awaits is
\* answered: c is the helper call with the answer in the last entry of
\* c.calls, the result is the call at its next await or at its end.

\* createUser: the created user, or undefined after the logged error
createUser(c) ==
  IF Last(c).status = Success
    THEN Returns(c, UserOf(c.email))
    ELSE Returns(c, undefined)

\* assignRole: nothing is returned, the error is logged
assignRole(c) == Returns(c, undefined)

\* promoteToAdmin: nothing is returned, the error is logged
promoteToAdmin(c) == Returns(c, undefined)

\* the assignRole of the RBAC guide: no try around the await, so a failure
\* of the API rejects the call
assignRoleGuide(c) ==
  IF Last(c).status # Success
    THEN Throws(c, Last(c).status)
    ELSE Returns(c, undefined)

findUserByEmail(c) ==
  IF Last(c).status # Success
    THEN Returns(c, null)
    ELSE Returns(c, IF Len(Last(c).data) > 0 THEN Last(c).data[1] ELSE null)

getUserRoles(c) ==
  IF Last(c).status # Success
    THEN Returns(c, << >>)
    ELSE Returns(c, Last(c).data)

\* the variant whose catch answers true
userHasRoleFailOpen(c) ==
  IF Last(c).status # Success
    THEN Returns(c, TRUE)
    ELSE Returns(c, SomeRoleNamed(Last(c).data, c.role))

userHasRole(c) ==
  IF Last(c).status # Success
    THEN Returns(c, FALSE)
    ELSE Returns(c, SomeRoleNamed(Last(c).data, c.role))

\* the variant that assigns the role the way the assignRole helper does:
\* the failure is logged and the flow goes on
registerUserSwallowingAssign(c) ==
  IF Last(c).status # Success /\ Len(c.calls) # 2
    THEN Throws(c, Last(c).status)
    ELSE IF Len(c.calls) = 1
      THEN Awaiting(c, Call("users.assignRoles",
                            <<UserOf(c.email).user_id, "rol_default_user">>))
      ELSE IF Len(c.calls) = 2
        THEN Awaiting(c, Call("users.update", <<UserOf(c.email).user_id>>))
        ELSE Returns(c, UserOf(c.email))

\* registerUser after its first, second or third await
registerUser(c) ==
  IF Last(c).status # Success
    THEN Throws(c, Last(c).status)
    ELSE IF Len(c.calls) = 1
      THEN Awaiting(c, Call("users.assignRoles",
                            <<UserOf(c.email).user_id, "rol_default_user">>))
      ELSE IF Len(c.calls) = 2
        THEN Awaiting(c, Call("users.update", <<UserOf(c.email).user_id>>))
        ELSE Returns(c, UserOf(c.email))

\* the variant that answers a conflict by creating once more
createUserSafelyRecreating(c) ==
  IF Len(c.calls) = 1
    THEN IF Last(c).status = Success
      THEN Returns(c, UserOf(c.email))
      ELSE IF Last(c).status = 409
        THEN Awaiting(c, Call("users.create", <<c.email>>))
        ELSE IF Last(c).status = 401
          THEN Awaiting(c, Call("refreshManagementToken", << >>))
          ELSE Throws(c, Last(c).status)
    ELSE IF Last(c).name = "refreshManagementToken"
      THEN IF Last(c).status # Success
        THEN Throws(c, Last(c).status)
        ELSE Awaiting(c, Call("users.create", <<c.email>>))
      ELSE IF Last(c).status = Success
        THEN Returns(c, UserOf(c.email))
        ELSE Throws(c, Last(c).status)

\* createUserSafely after the first create, after the lookup, after the
\* token refresh or after the repeated create. return await
\* findUserByEmail(...) takes two continuations: when users.getAll is answered
\* findUserByEmail returns and settles its promise, and createUserSafely
\* returns when that promise is delivered to it
createUserSafely(c) ==
  IF Len(c.calls) = 1
    THEN IF Last(c).status = Success
      THEN Returns(c, UserOf(c.email))
      ELSE IF Last(c).status = 409
        THEN Awaiting(c, Call("users.getAll", <<c.email>>))
        ELSE IF Last(c).status = 401
          THEN Awaiting(c, Call("refreshManagementToken", << >>))
          ELSE Throws(c, Last(c).status)
    ELSE IF Last(c).name = "users.getAll"
      THEN IF c.inner.settled
        THEN Returns(c, c.inner.value)
        ELSE [c EXCEPT !.inner = [settled |-> TRUE,
                                  value |-> findUserByEmail(c).value]]
      ELSE IF Last(c).name = "refreshManagementToken"
        THEN IF Last(c).status # Success
          THEN Throws(c, Last(c).status)
          ELSE Awaiting(c, Call("users.create", <<c.email>>))
        ELSE IF Last(c).status = Success
          THEN Returns(c, UserOf(c.email))
          ELSE Throws(c, Last(c).status)

\* the helper whose await was answered runs on
Resume(c) ==
  CASE c.fn = "createUser" -> createUser(c)
    [] c.fn = "assignRole" -> assignRole(c)
    [] c.fn = "promoteToAdmin" -> promoteToAdmin(c)
    [] c.fn = "guide.assignRole" -> assignRoleGuide(c)
    [] c.fn = "findUserByEmail" -> findUserByEmail(c)
    [] c.fn = "getUserRoles" -> getUserRoles(c)
    [] c.fn = "userHasRole" -> userHasRole(c)
    [] c.fn = "registerUser" -> registerUser(c)
    [] c.fn = "createUserSafely" -> createUserSafely(c)

\* a caller that awaits no helper call calls one
Starts(who, call) ==
  /\ helper[who].outcome # "pending"
  /\ helper' = [helper EXCEPT ![who] = call]
  /\ UNCHANGED <<renderVars, siteVars, rbacVars, quickVars, view, config, pass>>

CreateUser(who, userData) ==
  Starts(who, Begin("createUser", userData.email, "", "",
                    Call("users.create", <<userData.email>>)))

AssignRole(who, userId, roleId) ==
  Starts(who, Begin("assignRole", "", userId, roleId,
                    Call("users.assignRoles", <<userId, roleId>>)))

\* the assignRole of the RBAC guide is called
AssignRoleGuide(who, userId, roleId) ==
  Starts(who, Begin("guide.assignRole", "", userId, roleId,
                    Call("users.assignRoles", <<userId, roleId>>)))

PromoteToAdmin(who, userId) ==
  Starts(who, Begin("promoteToAdmin", "", userId, "rol_admin",
                    Call("users.assignRoles", <<userId, "rol_admin">>)))

FindUserByEmail(who, email) ==
  Starts(who, Begin("findUserByEmail", email, "", "",
                    Call("users.getAll", <<email>>)))

GetUserRoles(who, userId) ==
  Starts(who, Begin("getUserRoles", "", userId, "",
                    Call("users.getRoles", <<userId>>)))

UserHasRole(who, userId, roleName) ==
  Starts(who, Begin("userHasRole", "", userId, roleName,
                    Call("users.getRoles", <<userId>>)))

RegisterUser(who, userData) ==
  Starts(who, Begin("registerUser", userData.email, "", "",
                    Call("users.create", <<userData.email>>)))

CreateUserSafely(who, userData) ==
  Starts(who, Begin("createUserSafely", userData.email, "", "",
                    Call("users.create", <<userData.email>>)))

\* the call a helper awaits is answered (or refreshManagementToken settles)
\* and the helper runs to its next await or to its end
ApiAnswers(who, answer) ==
  /\ helper[who].outcome = "pending"
  /\ Last(helper[who]).status = Unanswered
  /\ answer \in AnswersTo(Last(helper[who]).name)
  /\ helper' =
       [helper EXCEPT ![who] =
          Resume([@ EXCEPT !.calls[Len(@.calls)] =
                     Answered(Last(helper[who]), answer)])]
  /\ UNCHANGED <<renderVars, siteVars, rbacVars, quickVars, view, config, pass>>

\* the settled promise of the async function a helper awaits is delivered
\* to it, and the helper runs on
PromiseDelivered(who) ==
  /\ helper[who].outcome = "pending"
  /\ helper[who].inner.settled
  /\ helper' = [helper EXCEPT ![who] = Resume(@)]
  /\ UNCHANGED <<renderVars, siteVars, rbacVars, quickVars, view, config, pass>>

(* ---------------- Python SDK: the token_required decorator --------------- *)

\* the characters of a header value: three that are not the space, and it
HeaderChars == {"a", "b", "c", " "}

\* request.headers.get('Authorization'): None, or a string
Headers ==
  {[isNone |-> TRUE, value |-> << >>]}
    \cup {[isNone |-> FALSE, value |-> v] :
            v \in SeqsUpTo(HeaderChars, MaxHeader)}

\* the position of the first sep in s at or after k, 0 when there is none
RECURSIVE find(_, _, _)
find(s, sep, k) ==
  IF k > Len(s) THEN 0
  ELSE IF s[k] = sep THEN k
  ELSE find(s, sep, k + 1)

\* str.split(sep) with a one-character separator: every occurrence splits,
\* empty strings are kept
RECURSIVE split(_, _)
split(s, sep) ==
  IF find(s, sep, 1) = 0
    THEN <<s>>
    ELSE <<SubSeq(s, 1, find(s, sep, 1) - 1)>>
           \o split(SubSeq(s, find(s, sep, 1) + 1, Len(s)), sep)

\* the user verify_token returns for a token it accepts
VerifiedUser(token) == [sub |-> "user_123", token |-> token]

NoCurrentUser == [sub |-> "", token |-> << >>]

NoView ==
  [handled |-> FALSE, header |-> [isNone |-> TRUE, value |-> << >>],
   verifies |-> FALSE, verified |-> << >>, invoked |-> FALSE, status |-> 0,
   error |-> "", currentUserSet |-> FALSE, currentUser |-> NoCurrentUser]

Unauthorized(header, verifies, verified, error) ==
  [handled |-> TRUE, header |-> header, verifies |-> verifies,
   verified |-> verified, invoked |-> FALSE, status |-> 401, error |-> error,
   currentUserSet |-> FALSE, currentUser |-> NoCurrentUser]

Protected(header, verifies, token) ==
  [handled |-> TRUE, header |-> header, verifies |-> verifies,
   verified |-> <<token>>, invoked |-> TRUE, status |-> 200, error |-> "",
   currentUserSet |-> TRUE, currentUser |-> VerifiedUser(token)]

\* the variant that verifies the first part of the header
token_requiredFirstPart(header, verifies) ==
  IF header.isNone \/ header.value = << >>
    THEN Unauthorized(header, verifies, << >>, "Token is missing")
    ELSE IF ~verifies
      THEN Unauthorized(header, verifies, <<split(header.value, " ")[1]>>,
                        "Token is invalid")
      ELSE Protected(header, verifies, split(header.value, " ")[1])

\* decorated(): header is what the request carries, verifies is whether
\* protekt.verify_token returns rather than raises; verified lists the
\* tokens it was handed
token_required(header, verifies) ==
  IF header.isNone \/ header.value = << >>
    THEN Unauthorized(header, verifies, << >>, "Token is missing")
    ELSE IF Len(split(header.value, " ")) < 2
      THEN Unauthorized(header, verifies, << >>, "Token is invalid")
      ELSE IF ~verifies
        THEN Unauthorized(header, verifies, <<split(header.value, " ")[2]>>,
                          "Token is invalid")
        ELSE Protected(header, verifies, split(header.value, " ")[2])

\* a request to /api/protected
RequestProtected(header, verifies) ==
  /\ view' = token_required(header, verifies)
  /\ UNCHANGED <<renderVars, siteVars, rbacVars, quickVars, helper, config, pass>>

(* ------------------ the configuration module, evaluated ------------------ *)

\* the years a build may run in
BuildYears == {2025, 2026}

\* what new Date() may answer: the fields of the current date
Dates == [year : BuildYears, month : {0, 11}]

\* Date.prototype.getFullYear
getFullYear(now) == now.year

\* a copyright line that carries the month as well
footerCopyrightWithMonth(now) ==
  "Copyright Â© " \o ToString(now.month) \o "/" \o ToString(getFullYear(now))
    \o " Protekt Dev"

\* `Copyright Â© ${new Date().getFullYear()} Protekt Dev`
footerCopyright(now) ==
  "Copyright Â© " \o ToString(getFullYear(now)) \o " Protekt Dev"

\* const config: Config = {...}, with now the date new Date() answers
docusaurusConfig(now) ==
  [title |-> "Protekt Developer Documentation",
   tagline |-> "Secure authentication made simple for developers",
   favicon |-> "img/favicon.ico",
   url |-> "https://dickson-mwendia.github.io",
   baseUrl |-> "/protekt-docs/",
   organizationName |-> "Dickson-Mwendia",
   projectName |-> "protekt-docs",
   onBrokenLinks |-> onBrokenLinks,
   onBrokenMarkdownLinks |-> onBrokenMarkdownLinks,
   navbar |-> [title |-> "Protekt", items |-> navbarItems],
   footer |-> [style |-> "dark", links |-> footerLinks,
               copyright |-> footerCopyright(now)]]

NoDate == [year |-> 0, month |-> 0]

NoConfig ==
  [evaluated |-> FALSE, again |-> FALSE, at |-> NoDate,
   value |-> docusaurusConfig(NoDate), prevAt |-> NoDate,
   prevValue |-> docusaurusConfig(NoDate)]

\* the framework imports the module: the object literal is evaluated once,
\* at the date of the build
EvaluateConfig(now) ==
  /\ config' =
       [evaluated |-> TRUE, again |-> config.evaluated, at |-> now,
        value |-> docusaurusConfig(now), prevAt |-> config.at,
        prevValue |-> config.value]
  /\ UNCHANGED <<renderVars, siteVars, rbacVars, quickVars, helper, view, pass>>

(* --------------- a render pass, one callback call at a time -------------- *)

NoPass == [pc |-> "idle", k |-> 0, visited |-> << >>, blocks |-> << >>]

\* FeatureList.map(...) is entered: the result array is empty, k is 0
BeginPass ==
  /\ pass.pc \in {"idle", "done"}
  /\ pass' = [pc |-> "mapping", k |-> 0, visited |-> << >>, blocks |-> << >>]
  /\ UNCHANGED <<renderVars, siteVars, rbacVars, quickVars, helper, view, config>>

\* a step that calls the callback a second time for the same index
MapStepRetrying ==
  /\ pass.pc = "mapping"
  /\ pass.k < Len(FeatureList)
  /\ pass' = [pass EXCEPT
       !.visited = pass.visited \o <<pass.k, pass.k>>,
       !.blocks = Append(pass.blocks,
                         FeatureElement(FeatureList[pass.k + 1], pass.k)),
       !.k = pass.k + 1]
  /\ UNCHANGED <<renderVars, siteVars, rbacVars, quickVars, helper, view, config>>

\* one iteration of Array.prototype.map: while k < len, the callback is
\* called with the element at k and with k, its result is stored, k grows
MapStep ==
  /\ pass.pc = "mapping"
  /\ pass.k < Len(FeatureList)
  /\ pass' = [pass EXCEPT
       !.visited = Append(pass.visited, pass.k),
       !.blocks = Append(pass.blocks,
                         FeatureElement(FeatureList[pass.k + 1], pass.k)),
       !.k = pass.k + 1]
  /\ UNCHANGED <<renderVars, siteVars, rbacVars, quickVars, helper, view, config>>

\* k has reached the length: map returns the array
EndPass ==
  /\ pass.pc = "mapping"
  /\ pass.k >= Len(FeatureList)
  /\ pass' = [pass EXCEPT !.pc = "done"]
  /\ UNCHANGED <<renderVars, siteVars, rbacVars, quickVars, helper, view, config>>

(* --------------------------- specifications ---------------------------- *)

InitRest ==
  /\ props = NoProps
  /\ output = NoTree
  /\ prevOutput = NoTree
  /\ threw = FALSE
  /\ passes = 0
  /\ build = IdleBuild
  /\ site = NoSite
  /\ api = NoRequest
  /\ app = NoApp
  /\ visit = NoVisit
  /\ page = InitialMarkup
  /\ full = InitialMarkup
  /\ helper = [w \in Callers |-> NoCall]
  /\ view = NoView
  /\ config = NoConfig
  /\ pass = NoPass

\* the program: the list is the literal
Init ==
  /\ FeatureList = FeatureListLiteral
  /\ InitRest

\* the renderer as a function of its list: any sequence up to MaxLen
InitAnyList ==
  /\ FeatureList \in FeatureSeqs
  /\ InitRest

Next ==
  \/ \E p \in PropsSeqs : Render(p)
  \/ \E m \in 0..MaxBroken, l \in 0..MaxBroken : Build(m, l)

Spec == Init /\ [][Next]_vars

SpecAnyList == InitAnyList /\ [][Next]_vars

\* the RBAC guide: API requests of authenticated users, and renders of App
NextRbac ==
  \/ \E r \in 1..Len(ProtectedRoutes), u \in Users : HandleRequest(r, u)
  \/ \E u \in Users : RenderApp(TRUE, u)
  \/ RenderApp(FALSE, NoUser)

SpecRbac == Init /\ [][NextRbac]_vars

\* user management: the two callers calling the helpers, the API answering
\* the awaited calls in any order and any way it can
NextUsers ==
  \/ \E w \in Callers, d \in UserDatas : CreateUser(w, d)
  \/ \E w \in Callers, i \in UserIds, r \in RoleIds : AssignRole(w, i, r)
  \/ \E w \in Callers, i \in UserIds, r \in RoleIds : AssignRoleGuide(w, i, r)
  \/ \E w \in Callers, i \in UserIds : PromoteToAdmin(w, i)
  \/ \E w \in Callers, e \in Emails : FindUserByEmail(w, e)
  \/ \E w \in Callers, i \in UserIds : GetUserRoles(w, i)
  \/ \E w \in Callers, i \in UserIds, n \in RoleNames : UserHasRole(w, i, n)
  \/ \E w \in Callers, d \in UserDatas : RegisterUser(w, d)
  \/ \E w \in Callers, d \in UserDatas : CreateUserSafely(w, d)
  \/ \E w \in Callers, a \in StatusAnswers \cup GetAllAnswers
                                \cup GetRolesAnswers : ApiAnswers(w, a)
  \/ \E w \in Callers : PromiseDelivered(w)

SpecUsers == Init /\ [][NextUsers]_vars

\* the Python SDK guide: requests to the protected view
NextPython ==
  \E h \in Headers, v \in BOOLEAN : RequestProtected(h, v)

SpecPython == Init /\ [][NextPython]_vars

\* builds and render passes, and the configuration module evaluated at the
\* date of each build
NextConfig ==
  \/ Next
  \/ \E now \in Dates : EvaluateConfig(now)

SpecConfig == Init /\ [][NextConfig]_vars

\* the render pass over any list, step by step; a pass that has begun is
\* carried on: nothing suspends the synchronous loop
NextPass ==
  \/ BeginPass
  \/ MapStep
  \/ EndPass

SpecPass ==
  InitAnyList /\ [][NextPass]_vars /\ WF_vars(MapStep) /\ WF_vars(EndPass)

\* the quickstart page: a visit, and the asynchronous steps of both versions
\* of the script in any order
NextQuickstart ==
  \/ \E v \in Visits : OpenPage(v)
  \/ Navigate
  \/ StepsLoginFails
  \/ FullLoginFails
  \/ StepsLoadFires
  \/ StepsAuthChecked
  \/ StepsLoadResumes
  \/ StepsCallbackSettles
  \/ StepsGetUserSettles
  \/ FullLoadFires
  \/ FullAuthChecked
  \/ FullLoadResumes
  \/ FullCallbackSettles
  \/ FullGetUserSettles

SpecQuickstart == Init /\ [][NextQuickstart]_vars

(* ------------------------ reading a rendered tree ---------------------- *)

\* the keyed blocks of a section, in document order
BlocksOf(tree) == tree.children[1].children[1].children

\* the parts a block displays, in document order
PartsOf(b) == b.children[1].children \o b.children[2].children

IconOf(b) == b.children[1].children[1]

HeadingOf(b) == b.children[2].children[1]

BodyOf(b) == b.children[2].children[2]

\* the descriptor a block displays
ShownBy(b) ==
  [title |-> HeadingOf(b).text, Svg |-> IconOf(b).src,
   description |-> BodyOf(b).text]

EmptySection ==
  [tag |-> "section", className |-> "features",
   children |-> <<
     [tag |-> "div", className |-> "container",
      children |-> <<
        [tag |-> "div", className |-> "row", children |-> << >>] >>] >>]

(* ------------------------------ claims --------------------------------- *)

\* C1: a render pass over a list of N descriptors returns exactly N blocks,
\* and the i-th block displays the i-th descriptor of the list.
C1_OneBlockPerDescriptorInOrder ==
  passes > 0 =>
    /\ Len(BlocksOf(output)) = Len(FeatureList)
    /\ \A i \in 1..Len(FeatureList) :
         ShownBy(BlocksOf(output)[i].block) = FeatureList[i]

\* the scenario of the spec: [{A, a}, {B, b}] rendered as two blocks, A/a
\* first and B/b second
C1_Witness ==
  /\ passes > 0
  /\ Len(FeatureList) = 2
  /\ FeatureList[1].title = "A" /\ FeatureList[1].description = "a"
  /\ FeatureList[2].title = "B" /\ FeatureList[2].description = "b"
  /\ Len(BlocksOf(output)) = 2
  /\ HeadingOf(BlocksOf(output)[1].block).text = "A"
  /\ HeadingOf(BlocksOf(output)[2].block).text = "B"

\* C2 as stated: the renderer renders the sequence it is handed, so a pass
\* returns as many blocks as the sequence it was called with has elements.
C2_RendersWhatItIsHanded ==
  passes > 0 => Len(BlocksOf(output)) = Len(props)

\* C2 amended: the renderer takes no input; whatever a pass is called with,
\* it returns the blocks of the module constant FeatureList, three of them.
C2_RendersTheConstantList ==
  passes > 0 =>
    /\ Len(BlocksOf(output)) = 3
    /\ \A i \in 1..3 :
         HeadingOf(BlocksOf(output)[i].block).text
           = FeatureListLiteral[i].title

C2_Witness ==
  /\ passes > 0
  /\ Len(props) = 2
  /\ Len(BlocksOf(output)) = 3
  /\ HeadingOf(BlocksOf(output)[1].block).text = "Easy Integration"

\* C3: the heading of every block displays the title of its descriptor,
\* unchanged.
C3_TitleShownExactly ==
  passes > 0 =>
    \A i \in 1..Len(BlocksOf(output)) :
      /\ i <= Len(FeatureList)
      /\ HeadingOf(BlocksOf(output)[i].block).text = FeatureList[i].title

C3_Witness ==
  /\ passes > 0
  /\ Len(FeatureList) = 2
  /\ FeatureList[1].title = "A" /\ FeatureList[1].description = "b"
  /\ HeadingOf(BlocksOf(output)[1].block).text = "A"

\* C4: the body of every block displays the description of its descriptor,
\* unchanged, and it is the description of the descriptor whose title the
\* block's heading displays.
C4_DescriptionShownExactlyAndPaired ==
  passes > 0 =>
    \A i \in 1..Len(BlocksOf(output)) :
      /\ i <= Len(FeatureList)
      /\ BodyOf(BlocksOf(output)[i].block).text = FeatureList[i].description
      /\ HeadingOf(BlocksOf(output)[i].block).text = FeatureList[i].title

C4_Witness ==
  /\ passes > 0
  /\ Len(FeatureList) = 2
  /\ FeatureList[1].title = FeatureList[2].title
  /\ FeatureList[1].description = "a" /\ FeatureList[2].description = "b"
  /\ BodyOf(BlocksOf(output)[1].block).text = "a"
  /\ BodyOf(BlocksOf(output)[2].block).text = "b"

\* C5: from the second pass on, a render pass returns the tree the pass
\* before it returned, whatever the passes were called with and whatever
\* builds ran in between.
C5_SameInputSameOutput ==
  passes >= 2 => output = prevOutput

C5_Witness ==
  /\ passes = MaxPasses
  /\ Len(FeatureList) = 2
  /\ Len(props) = 1
  /\ build.status = "completed"
  /\ output = prevOutput
  /\ Len(BlocksOf(output)) = 2

\* C6: no render pass ends in an exception, and a pass over the empty list
\* returns the section, container and row with no block in the row.
C6_EmptyListRendersEmptyRow ==
  passes > 0 =>
    /\ ~threw
    /\ output.tag = "section"
    /\ (FeatureList = << >> => output = EmptySection)

C6_Witness ==
  /\ passes > 0
  /\ FeatureList = << >>
  /\ ~threw
  /\ BlocksOf(output) = << >>

\* C7: every block displays exactly three parts, in this order: the icon of
\* its descriptor with role "img", the title in a heading, and the
\* description in a paragraph.
C7_ThreePartsPerBlock ==
  passes > 0 =>
    \A i \in 1..Len(BlocksOf(output)) :
      LET b == BlocksOf(output)[i].block
      IN  /\ Len(PartsOf(b)) = 3
          /\ IconOf(b).role = "img"
          /\ IconOf(b).src = FeatureList[i].Svg
          /\ HeadingOf(b).tag = "h3"
          /\ HeadingOf(b).text = FeatureList[i].title
          /\ BodyOf(b).tag = "p"
          /\ BodyOf(b).text = FeatureList[i].description

C7_Witness ==
  /\ passes > 0
  /\ Len(FeatureList) = 2
  /\ FeatureList[1].Svg = "mountain.svg"
  /\ FeatureList[2].Svg = "tree.svg"
  /\ Len(PartsOf(BlocksOf(output)[2].block)) = 3
  /\ IconOf(BlocksOf(output)[2].block).role = "img"
  /\ IconOf(BlocksOf(output)[2].block).src = "tree.svg"

\* C8: no step changes the descriptor list: a render pass leaves its
\* length, its order and every field of every descriptor as they were.
C8_ListNeverChanges == [][FeatureList' = FeatureList]_vars

C8_Witness ==
  /\ passes = MaxPasses
  /\ Len(FeatureList) = 2
  /\ FeatureList[1] # FeatureList[2]
  /\ Len(BlocksOf(output)) = 2

\* C9: in every state of the program the descriptor list has exactly three
\* descriptors, each with a non-empty title and a non-empty description.
C9_ThreeNonEmptyDescriptors ==
  /\ Len(FeatureList) = 3
  /\ \A i \in 1..Len(FeatureList) :
       /\ FeatureList[i].title # ""
       /\ FeatureList[i].description # ""

C9_Witness ==
  /\ passes = MaxPasses
  /\ build.status # "idle"
  /\ Len(FeatureList) = 3
  /\ FeatureList[3].title = "Developer-First APIs"

\* C10: a build with a broken internal link ends aborted; a build whose
\* only broken links are Markdown links warns and completes.
C10_LinkFailuresAsymmetric ==
  build.status # "idle" =>
    /\ build.brokenLinks > 0 => build.status = "aborted"
    /\ (build.brokenLinks = 0 /\ build.brokenMarkdownLinks > 0) =>
         (build.status = "completed" /\ build.warnings > 0)

\* one build with both kinds of broken link: warned, then aborted
C10_Witness ==
  /\ build.brokenMarkdownLinks > 0
  /\ build.brokenLinks > 0
  /\ build.warnings > 0
  /\ build.status = "aborted"

(* ---------------- shapes of navigation entries and keys ---------------- *)

Has(e, field) == field \in DOMAIN e

\* a direct link: a label and a target URL or path
IsDirectLink(e) ==
  /\ Has(e, "label")
  /\ Has(e, "to") \/ Has(e, "href")
  /\ ~Has(e, "items")

\* a grouping: a dropdown or category that contains nested entries
IsGrouping(e) ==
  /\ Has(e, "label") \/ Has(e, "title")
  /\ Has(e, "items")
  /\ Len(e.items) > 0
  /\ \A i \in 1..Len(e.items) : IsDirectLink(e.items[i])

\* the link to a sidebar: a label and a sidebar id, no URL or path
IsDocSidebarLink(e) ==
  /\ Has(e, "type") /\ e.type = "docSidebar"
  /\ Has(e, "label") /\ Has(e, "sidebarId")
  /\ ~Has(e, "to") /\ ~Has(e, "href") /\ ~Has(e, "items")

\* the search box: no label, no target, no nested entries
IsSearchBox(e) ==
  /\ Has(e, "type") /\ e.type = "search"
  /\ ~Has(e, "label") /\ ~Has(e, "to") /\ ~Has(e, "href")
  /\ ~Has(e, "items")

NavigationEntries == site.navbar \o site.footer

RecognizedKeys ==
  {"title", "description", "author", "reviewer", "date", "keywords", "tags",
   "customer_intent"}

\* C11 as stated: every navbar item and every footer entry the build loaded
\* is a direct link or a grouping.
C11_LinkOrGroupingOnly ==
  \A i \in 1..Len(NavigationEntries) :
    IsDirectLink(NavigationEntries[i]) \/ IsGrouping(NavigationEntries[i])

\* C11 amended: every navbar item and every footer entry the build loaded is
\* a direct link, a grouping of direct links, the doc-sidebar link (a label
\* and a sidebar id) or the search box (no label and no target); every
\* footer entry is a grouping.
C11_LinkGroupingSidebarOrSearch ==
  /\ \A i \in 1..Len(site.navbar) :
       \/ IsDirectLink(site.navbar[i])
       \/ IsGrouping(site.navbar[i])
       \/ IsDocSidebarLink(site.navbar[i])
       \/ IsSearchBox(site.navbar[i])
  /\ \A i \in 1..Len(site.footer) : IsGrouping(site.footer[i])

C11_Witness ==
  /\ site.loaded
  /\ Len(site.navbar) = 5
  /\ Len(site.footer) = 3
  /\ IsDocSidebarLink(site.navbar[1])
  /\ IsGrouping(site.navbar[2])
  /\ IsSearchBox(site.navbar[3])
  /\ IsDirectLink(site.navbar[4])

\* C12 as stated: every document the build loaded opens with one
\* front-matter block whose keys are all recognized keys.
C12_RecognizedKeysOnly ==
  \A i \in 1..Len(site.docs) :
    /\ site.docs[i].blocks = 1
    /\ site.docs[i].keys \subseteq RecognizedKeys

(* --------------------------- the RBAC guide ---------------------------- *)

Holds(user, permission) == user.claimed /\ permission \in user.permissions

Contains(seq, x) == \E i \in 1..Len(seq) : seq[i] = x

\* C13: for a handled request, either the user lacks the route's permission,
\* the middleware sent 403 'Insufficient permissions' and never called next,
\* or the user holds it, next was called exactly once and nothing was sent;
\* the route handler ran only for a user holding the route's permission.
C13_ForbiddenOrNext ==
  api.handled =>
    /\ ~Holds(api.user, api.permission) =>
         /\ api.res.sent
         /\ api.res.status = 403
         /\ api.res.error = "Insufficient permissions"
         /\ api.res.nextCalls = 0
    /\ Holds(api.user, api.permission) =>
         /\ ~api.res.sent
         /\ api.res.nextCalls = 1
    /\ api.handlerRuns > 0 => Holds(api.user, api.permission)

C13_Witness ==
  /\ api.handled
  /\ api.method = "POST"
  /\ api.user.permissions = {"read:posts"}
  /\ api.res.status = 403
  /\ api.handlerRuns = 0

\* C14: a user whose permissions are exactly those of the admin role is
\* admitted to every protected route, and App shows that user every link and
\* registers every route.
C14_AdminFullAccess ==
  /\ (api.handled /\ api.user.claimed
        /\ api.user.permissions = RolePermissions.admin)
       => (api.handlerRuns = 1 /\ ~api.res.sent)
  /\ (app.rendered /\ app.isAuthenticated /\ app.user.claimed
        /\ app.user.permissions = RolePermissions.admin)
       => /\ app.links = <<"/dashboard", "/posts", "/create-post", "/admin">>
          /\ app.routes = <<"/dashboard", "/posts", "/create-post", "/admin">>

\* C19: a viewer is admitted to GET /api/posts only; an editor is admitted
\* to GET and POST /api/posts and not to DELETE /api/posts/:id; so every
\* route that admits the viewer admits the editor.
C19_ViewerBelowEditor ==
  (api.handled /\ api.user.claimed) =>
    /\ api.user.permissions = RolePermissions.viewer =>
         (api.handlerRuns = 1 <=> api.method = "GET")
    /\ api.user.permissions = RolePermissions.editor =>
         (api.handlerRuns = 1 <=> api.method \in {"GET", "POST"})
    /\ \A r \in 1..Len(ProtectedRoutes) :
         ProtectedRoutes[r].permission \in RolePermissions.viewer
           => ProtectedRoutes[r].permission \in RolePermissions.editor

C19_Witness ==
  /\ api.handled
  /\ api.user.claimed
  /\ api.user.permissions = RolePermissions.editor
  /\ api.method = "POST"
  /\ api.handlerRuns = 1

\* C20: for an authenticated user, each of /posts, /create-post and /admin
\* is linked exactly if it is routed, exactly if the user holds read:posts,
\* write:posts or delete:all respectively; /dashboard is linked and routed.
C20_LinksMatchRoutes ==
  (app.rendered /\ app.isAuthenticated) =>
    /\ Contains(app.links, "/dashboard") /\ Contains(app.routes, "/dashboard")
    /\ \A g \in {<<"/posts", "read:posts">>, <<"/create-post", "write:posts">>,
                 <<"/admin", "delete:all">>} :
         /\ Contains(app.links, g[1]) <=> Contains(app.routes, g[1])
         /\ Contains(app.routes, g[1]) <=> Holds(app.user, g[2])

C20_Witness ==
  /\ app.rendered
  /\ app.isAuthenticated
  /\ app.user.permissions = {"read:posts", "delete:all"}
  /\ app.links = <<"/dashboard", "/posts", "/admin">>
  /\ app.routes = <<"/dashboard", "/posts", "/admin">>

(* ------------------------- the quickstart page ------------------------- *)

ProfileShown(d) == ~d.profileHidden /\ d.loginHidden

LoginShown(d) == ~d.loginHidden /\ d.profileHidden

\* nothing of the script is pending any more
Settled(d) ==
  /\ visit.open
  /\ d.load = "done"
  /\ d.callback # "pending"
  /\ d.getUser = 0

\* C15: when the load handler of step 3.5 resumes, it leaves the profile
\* section shown and the login section hidden if isAuthenticated resolved
\* true, and the login section shown and the profile section hidden if it
\* resolved false or threw.
C15_LoadHandlerShowsMatchingSection ==
  [][(page.load = "checked" /\ page'.load = "done") =>
       /\ page.authResult = "true" => ProfileShown(page')
       /\ page.authResult \in {"false", "throw"} => LoginShown(page')]_vars

C15_Witness ==
  /\ page.load = "done"
  /\ page.authResult = "throw"
  /\ page.callback = "resolved"
  /\ LoginShown(page)

\* C16: once both versions of the page have settled on the same visit, they
\* show the same section and the same user-info content.
C16_CompleteFileMatchesSteps ==
  (Settled(page) /\ Settled(full)) =>
    /\ page.loginHidden = full.loginHidden
    /\ page.profileHidden = full.profileHidden
    /\ page.userInfo = full.userInfo

\* C17: once the page of the steps has settled on a visit that carried
\* code= and whose handleRedirectCallback succeeded, the profile section is
\* shown and the login section hidden.
C17_ProfileShownAfterCallback ==
  (Settled(page) /\ visit.hasCode /\ page.callback = "resolved") =>
    ProfileShown(page)

\* C18: exactly one of the login section and the profile section of the
\* page carries no "hidden" class.
C18_ExactlyOneSectionVisible ==
  page.loginHidden # page.profileHidden

C18_Witness ==
  /\ Settled(page)
  /\ page.callback = "resolved"
  /\ page.authResult = "false"
  /\ ProfileShown(page)

\* C21: a render of App with isAuthenticated false returns the Login
\* component alone: no link, no route, /dashboard included, and no read of
\* the permissions claim.
C21_LoginOnlyWhenUnauthenticated ==
  (app.rendered /\ ~app.isAuthenticated) =>
    /\ app.login
    /\ app.links = << >>
    /\ app.routes = << >>
    /\ ~Contains(app.routes, "/dashboard")
    /\ app.lookups = 0

C21_Witness ==
  /\ app.rendered
  /\ ~app.isAuthenticated
  /\ app.login
  /\ app.lookups = 0
  /\ api.handled

Count(calls, name) ==
  Cardinality({k \in 1..Len(calls) : calls[k].name = name})

NamesOf(calls) == [k \in 1..Len(calls) |-> calls[k].name]

RegistrationSteps == <<"users.create", "users.assignRoles", "users.update">>

\* the user a lookup answered with, null when it failed or found none
FoundBy(call) ==
  IF call.status = Success /\ Len(call.data) > 0 THEN call.data[1] ELSE null

\* C22: registerUser makes the calls create, assignRoles, update in that
\* order, each after the one before it succeeded; it returns the created user
\* exactly when all three succeeded; when a step fails no later step is made,
\* the error of that step is rethrown, and no call undoes the steps already
\* made. This holds of every call of registerUser, whatever other helper
\* calls are in flight.
C22_RegistrationInOrderNoRollback ==
  \A w \in Callers :
    helper[w].fn = "registerUser" =>
      LET c == helper[w]
          n == Len(c.calls)
      IN /\ n \in 1..3
         /\ NamesOf(c.calls) = SubSeq(RegistrationSteps, 1, n)
         /\ \A k \in 1..(n - 1) : c.calls[k].status = Success
         /\ (c.outcome = "pending") <=> (c.calls[n].status = Unanswered)
         /\ (c.outcome = "returned") <=>
              (n = 3 /\ c.calls[3].status = Success)
         /\ c.outcome = "returned" => c.value = UserOf(c.email)
         /\ (c.outcome = "threw") <=> (c.calls[n].status \in ErrorStatuses)
         /\ c.outcome = "threw" => c.error = c.calls[n].status

C22_Witness ==
  /\ helper["first"].fn = "registerUser"
  /\ helper["first"].outcome = "threw"
  /\ helper["first"].error = 403
  /\ NamesOf(helper["first"].calls) = <<"users.create", "users.assignRoles">>
  /\ helper["first"].calls[1].status = Success
  /\ helper["second"].fn = "userHasRole"
  /\ helper["second"].outcome = "returned"

\* C23: createUserSafely calls users.create at most twice, the second time
\* only after the first failed with 401 and the token refresh completed; on
\* 409 it returns what findUserByEmail returns and creates nothing more; on
\* any other status the first error is rethrown; a failed refresh or retry
\* propagates. This holds of every call, whatever else is in flight.
C23_AtMostOneRetry ==
  \A w \in Callers :
    helper[w].fn = "createUserSafely" =>
      LET c == helper[w]
          n == Len(c.calls)
          creates == Count(c.calls, "users.create")
          first == c.calls[1].status
      IN /\ creates \in 1..2
         /\ c.calls[1].name = "users.create"
         /\ c.calls[n].status = Unanswered => c.outcome = "pending"
         /\ c.outcome = "pending" =>
              (c.calls[n].status = Unanswered \/ first = 409)
         /\ first = Success => (n = 1 /\ c.outcome = "returned")
         /\ creates = 2 =>
              /\ first = 401
              /\ NamesOf(c.calls) =
                   <<"users.create", "refreshManagementToken", "users.create">>
              /\ c.calls[2].status = Success
              /\ c.calls[3].status \in ErrorStatuses =>
                   (c.outcome = "threw" /\ c.error = c.calls[3].status)
              /\ c.calls[3].status = Success =>
                   (c.outcome = "returned" /\ c.value = UserOf(c.email))
         /\ first = 401 =>
              /\ n >= 2
              /\ c.calls[2].name = "refreshManagementToken"
              /\ c.calls[2].status \in ErrorStatuses =>
                   (n = 2 /\ c.outcome = "threw"
                      /\ c.error = c.calls[2].status)
         /\ first = 409 =>
              /\ NamesOf(c.calls) = <<"users.create", "users.getAll">>
              /\ c.calls[2].status # Unanswered =>
                   /\ c.inner = [settled |-> TRUE,
                                 value |-> FoundBy(c.calls[2])]
                   /\ c.outcome \in {"pending", "returned"}
                   /\ c.outcome = "returned" => c.value = FoundBy(c.calls[2])
         /\ first \in ErrorStatuses \ {409, 401} =>
              (n = 1 /\ c.outcome = "threw" /\ c.error = first)

C23_Witness ==
  /\ helper["second"].fn = "createUserSafely"
  /\ NamesOf(helper["second"].calls) =
       <<"users.create", "refreshManagementToken", "users.create">>
  /\ helper["second"].calls[3].status = 409
  /\ helper["second"].outcome = "threw"
  /\ helper["second"].error = 409
  /\ helper["first"].fn = "getUserRoles"
  /\ helper["first"].outcome = "pending"

\* C24: when the API call fails userHasRole returns false and getUserRoles
\* returns the empty array, neither throws; userHasRole returns true only when
\* the fetched roles hold one whose name is exactly the name asked for.
C24_RoleChecksFailClosed ==
  \A w \in Callers :
    /\ helper[w].fn = "userHasRole" =>
         /\ helper[w].outcome \in {"pending", "returned"}
         /\ helper[w].calls[1].status \in ErrorStatuses =>
              (helper[w].outcome = "returned" /\ helper[w].value = FALSE)
         /\ (helper[w].outcome = "returned" /\ helper[w].value = TRUE) =>
              /\ helper[w].calls[1].status = Success
              /\ \E k \in 1..Len(helper[w].calls[1].data) :
                   helper[w].calls[1].data[k].name = helper[w].role
    /\ helper[w].fn = "getUserRoles" =>
         /\ helper[w].outcome \in {"pending", "returned"}
         /\ helper[w].calls[1].status \in ErrorStatuses =>
              (helper[w].outcome = "returned" /\ helper[w].value = << >>)

C24_Witness ==
  /\ helper["first"].fn = "userHasRole"
  /\ helper["first"].calls[1].status = 403
  /\ helper["first"].role = "Admin"
  /\ helper["first"].outcome = "returned"
  /\ helper["first"].value = FALSE
  /\ helper["second"].fn = "getUserRoles"
  /\ helper["second"].calls[1].status = 404
  /\ helper["second"].outcome = "returned"
  /\ helper["second"].value = << >>

\* the parts of a header value between single spaces, read off the value
\* character by character: part n ends at the n-th space or at the end
SpaceCount(s) == Cardinality({k \in 1..Len(s) : s[k] = " "})

SecondPart(s) ==
  LET spaces == {k \in 1..Len(s) : s[k] = " "}
      first == CHOOSE k \in spaces : \A j \in spaces : k <= j
      rest == {k \in spaces : k > first}
      stop == IF rest = {} THEN Len(s) + 1
              ELSE CHOOSE k \in rest : \A j \in rest : k <= j
  IN SubSeq(s, first + 1, stop - 1)

\* C25: the wrapped view is invoked only when the Authorization header is
\* present, has a second space-separated part, and verify_token succeeds on
\* that part; in every other case the answer is 401, the view is not invoked
\* and request.current_user is not set.
C25_ViewOnlyBehindVerifiedToken ==
  view.handled =>
    /\ view.invoked <=>
         /\ ~view.header.isNone
         /\ SpaceCount(view.header.value) >= 1
         /\ view.verifies
    /\ view.invoked =>
         /\ view.verified = <<SecondPart(view.header.value)>>
         /\ view.currentUserSet
         /\ view.currentUser = VerifiedUser(SecondPart(view.header.value))
    /\ ~view.invoked =>
         /\ view.status = 401
         /\ ~view.currentUserSet
         /\ view.error \in {"Token is missing", "Token is invalid"}

C25_Witness ==
  /\ view.handled
  /\ view.header = [isNone |-> FALSE, value |-> <<"a", "b", "c">>]
  /\ view.verifies
  /\ ~view.invoked
  /\ view.status = 401
  /\ view.error = "Token is invalid"
  /\ ~view.currentUserSet

WithoutCopyright(c) == [c EXCEPT !.footer.copyright = ""]

\* C26 as stated: two evaluations of the configuration module yield the same
\* object whatever the dates of the two builds, footer copyright included.
C26_SameConfigEveryEvaluation ==
  config.again => config.value = config.prevValue

\* C26: two evaluations of the configuration module agree on every value but
\* the footer copyright, which carries the year of the date of the build; two
\* builds in the same year see identical configurations.
C26_SameConfigButCopyrightYear ==
  config.again =>
    /\ WithoutCopyright(config.value) = WithoutCopyright(config.prevValue)
    /\ config.at.year = config.prevAt.year =>
         config.value = config.prevValue
    /\ config.at.year # config.prevAt.year =>
         config.value.footer.copyright # config.prevValue.footer.copyright

C26_Witness ==
  /\ config.again
  /\ config.prevAt.year = 2025
  /\ config.at.year = 2026
  /\ config.prevValue.footer.copyright = "Copyright Â© 2025 Protekt Dev"
  /\ config.value.footer.copyright = "Copyright Â© 2026 Protekt Dev"
  /\ build.status = "completed"

\* C27: a render pass over a finite list terminates, and it is one pass: at
\* every point the callback has been called for the indices 0..k-1, once
\* each and in that order, and the pass ends with every index visited.
C27_OnePassThatEnds ==
  /\ [](/\ pass.k <= Len(FeatureList)
        /\ Len(pass.visited) = pass.k
        /\ \A i \in 1..Len(pass.visited) : pass.visited[i] = i - 1
        /\ pass.pc = "done" =>
             /\ pass.k = Len(FeatureList)
             /\ pass.blocks = FeatureBlocks(FeatureList))
  /\ (pass.pc = "mapping") ~> (pass.pc = "done")

C27_Witness ==
  /\ pass.pc = "done"
  /\ Len(FeatureList) = 2
  /\ pass.visited = <<0, 1>>

\* C28: the blocks of a render pass sit in one row inside one section, and
\* every block has the column class 'col col--4', whatever its position and
\* however many blocks there are.
C28_OneRowOfThirds ==
  passes > 0 =>
    /\ output.tag = "section"
    /\ Len(output.children) = 1
    /\ Len(output.children[1].children) = 1
    /\ output.children[1].children[1].className = "row"
    /\ Len(BlocksOf(output)) = Len(FeatureList)
    /\ \A i \in 1..Len(BlocksOf(output)) :
         BlocksOf(output)[i].block.className = "col col--4"

C28_Witness ==
  /\ passes > 0
  /\ Len(FeatureList) = 2
  /\ FeatureList[1] # FeatureList[2]
  /\ BlocksOf(output)[1].block.className = "col col--4"
  /\ BlocksOf(output)[2].block.className = "col col--4"

\* C29: the key of each block is its position: over a list of N descriptors
\* the keys are 0..N-1 in order, pairwise distinct, so two descriptors with
\* the same title and description still give two blocks.
C29_KeysArePositions ==
  passes > 0 =>
    /\ Len(BlocksOf(output)) = Len(FeatureList)
    /\ \A i \in 1..Len(BlocksOf(output)) :
         BlocksOf(output)[i].key = ToString(i - 1)
    /\ \A i \in 1..Len(BlocksOf(output)), j \in 1..Len(BlocksOf(output)) :
         i # j => BlocksOf(output)[i].key # BlocksOf(output)[j].key

C29_Witness ==
  /\ passes > 0
  /\ Len(FeatureList) = 2
  /\ FeatureList[1] = FeatureList[2]
  /\ Len(BlocksOf(output)) = 2
  /\ BlocksOf(output)[1].key = "0"
  /\ BlocksOf(output)[2].key = "1"

====
